---------------------------- MODULE Spec2Model ----------------------------
(***************************************************************************)
(* Peg_Solitare.py: triangular peg solitaire solver.                       *)
(*                                                                         *)
(* Board and Hole objects are records; a Python list is a sequence whose   *)
(* element i is element i + 1 of the sequence.  Board objects live in a    *)
(* heap of references so that copy.deepcopy is an allocation, not an       *)
(* identity.  The recursion of find_solutions is an explicit stack of      *)
(* frames, and the call of Board.__init__ is init_call.  skipped_moves and *)
(* previous_run observe the run; the program does not read them.           *)
(***************************************************************************)
EXTENDS Integers, Sequences, FiniteSets, TLC

\* Largest side length n the caller passes to Board(n) in Spec.
MaxN == 4

\* The driver's board: Board(5) with the peg of hole 0 removed.
MainSize == 5
MainEmpty == 0

\* Largest side length n passed to Board(n) in SpecBoard, where only the
\* construction runs.
MaxBoard == 8

\* The largest side length any specification builds.
LargestSize ==
  LET m == IF MaxN > MainSize THEN MaxN ELSE MainSize
  IN  IF MaxBoard > m THEN MaxBoard ELSE m

VARIABLES
  pc,                       \* "config", "search", "done", "error": the driver's position
  heap,                     \* reference -> Board object
  stack,                    \* frames of find_solutions, outermost first
  num_of_solutions,         \* find_solutions.num_of_solutions
  num_of_function_runs,     \* find_solutions.num_of_function_runs
  reported,                 \* routes printed so far, oldest first
  recording,                \* whether the output is being recorded in reported
  skipped_moves,            \* moves of a loop left unapplied by the return of line 90
  previous_run,             \* << >>, or the one-element list of an earlier run's result
  init_call                 \* << >>, or the locals of the call of Board.__init__

vars == <<pc, heap, stack, num_of_solutions, num_of_function_runs, reported,
          recording, skipped_moves, previous_run, init_call>>

-----------------------------------------------------------------------------
(* Python lists *)

\* list[i] for an index Python accepts: a negative index counts from the end.
PyIndex(i, len) == IF i < 0 THEN i + len ELSE i

\* Python raises IndexError outside [-len, len).
IndexOk(i, len) == i >= -len /\ i < len

Item(list, i) == list[PyIndex(i, Len(list)) + 1]

-----------------------------------------------------------------------------
(* class Hole *)

\* Hole.__init__ without lines 61 and 64: only the moves along the row and the
\* two moves down are appended.
HoleMoves_no_upward(n, pos, row, offset) ==
  (IF offset - row < -1 THEN << <<pos + 1, pos + 2>> >> ELSE << >>)
  \o (IF offset > 1 THEN << <<pos - 1, pos - 2>> >> ELSE << >>)
  \o (IF n - row > 2
        THEN << <<pos + row + 1, pos + 2*(row + 1) + 1>>,
                <<pos + row + 2, pos + 2*(row + 1) + 3>> >>
        ELSE << >>)

\* Lines 59-61: the test for a move to the east and northeast, and its moves.
EastMoves(pos, row, offset) ==
  IF offset - row < -1
    THEN << <<pos + 1, pos + 2>>, <<pos - row, pos - 2*row + 1>> >>
    ELSE << >>

\* Lines 62-64 with the test "offset > 0".
WestMoves_from_offset_1(pos, row, offset) ==
  IF offset > 0
    THEN << <<pos - 1, pos - 2>>, <<pos - row - 1, pos - 2*row - 1>> >>
    ELSE << >>

\* Lines 62-64: the test for a move to the west and northwest, and its moves.
WestMoves(pos, row, offset) ==
  IF offset > 1
    THEN << <<pos - 1, pos - 2>>, <<pos - row - 1, pos - 2*row - 1>> >>
    ELSE << >>

\* Lines 65-67: the test for a move to the south, and its moves.
SouthMoves(n, pos, row, offset) ==
  IF n - row > 2
    THEN << <<pos + row + 1, pos + 2*(row + 1) + 1>>,
            <<pos + row + 2, pos + 2*(row + 1) + 3>> >>
    ELSE << >>

\* The candidate moves [mid, dest] of Hole.__init__, in the order appended.
HoleMoves(n, pos, row, offset) ==
  EastMoves(pos, row, offset) \o WestMoves(pos, row, offset)
  \o SouthMoves(n, pos, row, offset)

\* Hole.__init__ with line 56 reading "self.pos = pos + 1": positions from 1.
Hole_from_1(n, pos, row, offset) ==
  [pos |-> pos + 1, moves |-> HoleMoves(n, pos, row, offset)]

\* pos and moves are assigned here and written nowhere else in the program;
\* has_peg, the one field written later, is kept per Board object (Board.has_peg).
Hole(n, pos, row, offset) ==
  [pos |-> pos, moves |-> HoleMoves(n, pos, row, offset)]

-----------------------------------------------------------------------------
(* class Board *)

\* The two nested loops of Board.__init__, from (row, offset) with pos holes built.
RECURSIVE BuildHoles(_, _, _, _, _)
BuildHoles(n, row, offset, pos, acc) ==
  IF row >= n THEN acc
  ELSE IF offset > row THEN BuildHoles(n, row + 1, 0, pos, acc)
  ELSE BuildHoles(n, row, offset + 1, pos + 1,
                  Append(acc, Hole(n, pos, row, offset)))

\* The holes list Board.__init__ builds, for every size in use.  Nothing in it is
\* written after construction.
Holes == [n \in 1..LargestSize |-> BuildHoles(n, 0, 0, 0, << >>)]

\* Board(n) with line 28 reading "self.winSize = self.numHoles - 3".
Board_short_win(n) ==
  LET numHoles == (n*n + n) \div 2
  IN  [size |-> n,
       numHoles |-> numHoles,
       winSize |-> numHoles - 3,
       has_peg |-> [k \in 1..Len(Holes[n]) |-> TRUE],
       route |-> << >>]

\* Board(n): every hole has its peg, the route is empty.
Board(n) ==
  LET numHoles == (n*n + n) \div 2
  IN  [size |-> n,
       numHoles |-> numHoles,
       winSize |-> numHoles - 2,
       has_peg |-> [k \in 1..Len(Holes[n]) |-> TRUE],
       route |-> << >>]

\* The pairs (hole, move) the two loops of valid_moves visit, in the order they
\* visit them, as [hole.pos, move[0], move[1]].
RECURSIVE Visits(_, _)
Visits(holes, k) ==
  IF k > Len(holes) THEN << >>
  ELSE [j \in 1..Len(holes[k].moves) |->
          <<holes[k].pos, holes[k].moves[j][1], holes[k].moves[j][2]>>]
       \o Visits(holes, k + 1)

Candidates == [n \in 1..LargestSize |-> Visits(Holes[n], 1)]

\* valid_moves with the loop over the holes run twice: every move listed twice.
valid_moves_twice(b) ==
  LET ms == SelectSeq(Candidates[b.size],
                      LAMBDA m : b.has_peg[m[1] + 1] /\ b.has_peg[m[2] + 1]
                                 /\ ~b.has_peg[m[3] + 1])
  IN  ms \o ms

\* valid_moves with line 47 reading "moves.insert(0, ...)": the list backwards.
valid_moves_newest_first(b) ==
  LET ms == SelectSeq(Candidates[b.size],
                      LAMBDA m : b.has_peg[m[1] + 1] /\ b.has_peg[m[2] + 1]
                                 /\ ~b.has_peg[m[3] + 1])
  IN  [i \in 1..Len(ms) |-> ms[Len(ms) + 1 - i]]

\* valid_moves without the test of line 44: the origin need not hold a peg.
valid_moves_any_origin(b) ==
  SelectSeq(Candidates[b.size],
            LAMBDA m : b.has_peg[m[2] + 1] /\ ~b.has_peg[m[3] + 1])

\* valid_moves with line 46 reading "if holes[move[0]].has_peg:", the test of the
\* destination dropped.
valid_moves_any_dest(b) ==
  SelectSeq(Candidates[b.size],
            LAMBDA m : b.has_peg[m[1] + 1] /\ b.has_peg[m[2] + 1])

\* valid_moves with the "not" of line 46 on the wrong operand: the destination
\* must hold a peg and the jumped hole must be empty.
valid_moves_not_mid(b) ==
  SelectSeq(Candidates[b.size],
            LAMBDA m : b.has_peg[m[1] + 1] /\ ~b.has_peg[m[2] + 1]
                       /\ b.has_peg[m[3] + 1])

\* valid_moves with the "not" of line 46 left out altogether.
valid_moves_full_dest(b) ==
  SelectSeq(Candidates[b.size],
            LAMBDA m : b.has_peg[m[1] + 1] /\ b.has_peg[m[2] + 1]
                       /\ b.has_peg[m[3] + 1])

\* The two tests of valid_moves (lines 44 and 46) on each visited pair.  The
\* indices in Candidates are never negative, so holes[i] is element i + 1.
valid_moves(b) ==
  SelectSeq(Candidates[b.size],
            LAMBDA m : b.has_peg[m[1] + 1] /\ b.has_peg[m[2] + 1]
                       /\ ~b.has_peg[m[3] + 1])

-----------------------------------------------------------------------------
(* find_solutions *)

\* holes[i].has_peg = v
SetPeg(has_peg, i, v) ==
  [has_peg EXCEPT ![PyIndex(i, Len(has_peg)) + 1] = v]

\* Lines 79-83 without line 81: the jumping peg stays where it was as well.
ApplyMove_keeps_origin(b, move) ==
  [b EXCEPT !.route = Append(@, <<move[1], move[3]>>),
            !.has_peg[move[2] + 1] = FALSE,
            !.has_peg[move[3] + 1] = TRUE]

\* Lines 79-83 followed by "new_board.winSize -= 1": the copy counts the jumps
\* still to make in the field the test of line 85 reads.
ApplyMove_counts_down(b, move) ==
  [b EXCEPT !.route = Append(@, <<move[1], move[3]>>),
            !.has_peg[move[1] + 1] = FALSE,
            !.has_peg[move[2] + 1] = FALSE,
            !.has_peg[move[3] + 1] = TRUE,
            !.winSize = @ - 1]

\* Lines 79-83 without line 82: the jumped peg stays on the board.
ApplyMove_keeps_mid(b, move) ==
  [b EXCEPT !.route = Append(@, <<move[1], move[3]>>),
            !.has_peg[move[1] + 1] = FALSE,
            !.has_peg[move[3] + 1] = TRUE]

\* Lines 79-83 on the copy: log the move, then perform it (the positions of a
\* move come from Candidates and are never negative).
ApplyMove(b, move) ==
  [b EXCEPT !.route = Append(@, <<move[1], move[3]>>),
            !.has_peg[move[1] + 1] = FALSE,
            !.has_peg[move[2] + 1] = FALSE,
            !.has_peg[move[3] + 1] = TRUE]

\* "new_board = board" in place of line 77: no copy, the caller's object itself.
deepcopy_alias(ref) == [ref |-> ref, heap |-> heap]

\* copy.deepcopy(board): a new object, at a reference no live object uses
\* (tempBoard is at 0, the new_board of the k-th frame at k).
deepcopy(ref) ==
  [ref |-> Len(stack), heap |-> (Len(stack) :> heap[ref]) @@ heap]

Top == stack[Len(stack)]

Pop == SubSeq(stack, 1, Len(stack) - 1)

\* The heap once the innermost call has returned: its local new_board, the
\* object at reference Len(stack), is no longer referenced.
Returned(h) == [r \in (DOMAIN h) \ {Len(stack)} |-> h[r]]

\* print(new_board.route), as seen by whoever records the output.
Show(out, route) == IF recording THEN Append(out, route) ELSE out

\* Lines 73-75 with line 76 reading "for move in reversed(moves):".
Enter_reversed(h, st, ref, show) ==
  LET moves == valid_moves(h[ref])
  IN  IF Len(moves) = 0
        THEN st
        ELSE Append(st, [board |-> ref, show_solutions |-> show,
                         moves |-> [i \in 1..Len(moves) |-> moves[Len(moves) + 1 - i]],
                         idx |-> 0])

\* Lines 73-75 of a call on the board at ref, made with the frames st below it:
\* with no valid move the call returns at once, otherwise its for loop starts.
Enter(h, st, ref, show) ==
  LET moves == valid_moves(h[ref])
  IN  IF Len(moves) = 0
        THEN st
        ELSE Append(st, [board |-> ref, show_solutions |-> show,
                         moves |-> moves, idx |-> 0])

\* The driver's position once the innermost call has returned to the frames st.
After(st) == IF Len(st) = 0 THEN "done" ELSE "search"

-----------------------------------------------------------------------------
(* The driver *)

\* tempBoard.holes[p].has_peg = False, for any position p the caller writes.
RemovePeg(p) ==
  /\ pc = "config"
  /\ IF IndexOk(p, Len(heap[0].has_peg))
       THEN /\ heap' = [heap EXCEPT ![0].has_peg = SetPeg(@, p, FALSE)]
            /\ pc' = pc
       ELSE /\ pc' = "error"                       \* IndexError
            /\ heap' = heap
  /\ UNCHANGED <<stack, num_of_solutions, num_of_function_runs, reported, recording,
                 skipped_moves, previous_run, init_call>>

\* Lines 104-105 without line 103: num_of_solutions is not reset before the call.
StartSearch_no_reset(show) ==
  /\ num_of_solutions' = num_of_solutions
  /\ num_of_function_runs' = 0 + 1
  /\ stack' = Enter(heap, << >>, 0, show)
  /\ pc' = After(stack')
  /\ skipped_moves' = 0
  /\ UNCHANGED <<heap, recording, init_call>>

\* Lines 103-105: reset the counters and call find_solutions(tempBoard, show);
\* the call runs up to its for loop (lines 72-75).
StartSearch(show) ==
  /\ num_of_solutions' = 0
  /\ num_of_function_runs' = 0 + 1
  /\ stack' = Enter(heap, << >>, 0, show)
  /\ pc' = After(stack')
  /\ skipped_moves' = 0
  /\ UNCHANGED <<heap, recording, init_call>>

\* The first run of lines 103-105 on the configured board.
Begin(show) ==
  /\ pc = "config"
  /\ StartSearch(show)
  /\ UNCHANGED <<reported, previous_run>>

\* Lines 103-105 once more on the same tempBoard, after a run has returned; the
\* result and the output of the run before are kept aside for comparison.
Again(show) ==
  /\ pc = "done"
  /\ previous_run = << >>
  /\ previous_run' = << [num_of_solutions |-> num_of_solutions,
                         num_of_function_runs |-> num_of_function_runs,
                         reported |-> reported] >>
  /\ reported' = << >>
  /\ StartSearch(show)

-----------------------------------------------------------------------------
(* find_solutions: one action per iteration of the for loop, one for its end *)

\* Lines 76-92, one iteration of the innermost call's loop: copy the board, log
\* and perform the next move, then either (lines 85-90) print, count and return,
\* or (line 92) call find_solutions(new_board), which runs up to its own loop
\* (lines 72-75).
Iterate ==
  /\ pc = "search"
  /\ LET top == Top
     IN  /\ top.idx < Len(top.moves)
         /\ LET c == deepcopy(top.board)
                new_board == ApplyMove(c.heap[c.ref], top.moves[top.idx + 1])
                h == (c.ref :> new_board) @@ c.heap
            IN  IF Len(new_board.route) = new_board.winSize
                  THEN /\ reported' = IF top.show_solutions
                                        THEN Show(reported, new_board.route)
                                        ELSE reported
                       /\ num_of_solutions' = num_of_solutions + 1
                       /\ stack' = Pop
                       /\ heap' = Returned(h)
                       /\ pc' = After(Pop)
                       /\ skipped_moves' = skipped_moves + (Len(top.moves) - top.idx - 1)
                       /\ UNCHANGED num_of_function_runs
                  ELSE /\ stack' = Enter(h, [stack EXCEPT ![Len(stack)].idx = @ + 1],
                                         c.ref, TRUE)
                       /\ heap' = h
                       /\ num_of_function_runs' = num_of_function_runs + 1
                       /\ UNCHANGED <<pc, num_of_solutions, reported, skipped_moves>>
  /\ UNCHANGED <<recording, previous_run, init_call>>

\* The exhausted loop with no return after it: the call never ends.
LoopExit_no_return ==
  /\ pc = "search"
  /\ Top.idx = Len(Top.moves)
  /\ UNCHANGED vars

\* Line 93: the loop is exhausted.
LoopExit ==
  /\ pc = "search"
  /\ Top.idx = Len(Top.moves)
  /\ stack' = Pop
  /\ heap' = Returned(heap)
  /\ pc' = After(Pop)
  /\ UNCHANGED <<num_of_solutions, num_of_function_runs, reported, recording,
                 skipped_moves, previous_run, init_call>>

Search == Iterate \/ LoopExit

-----------------------------------------------------------------------------
(* Spec: any board size up to MaxN, any positions the caller removes, run twice *)

\* Positions the caller may write: every index Python accepts, one beyond each end.
Positions(b) == (-(b.numHoles) - 1) .. b.numHoles

Init ==
  /\ pc = "config"
  /\ \E n \in 1..MaxN : heap = (0 :> Board(n))
  /\ stack = << >>
  /\ num_of_solutions = 0
  /\ num_of_function_runs = 0
  /\ reported = << >>
  /\ recording = TRUE
  /\ skipped_moves = 0
  /\ previous_run = << >>
  /\ init_call = << >>

Configure == \E p \in Positions(heap[0]) : RemovePeg(p)

Call == \E show \in BOOLEAN : Begin(show)

Rerun == \E show \in BOOLEAN : Again(show)

Next == Configure \/ Call \/ Rerun \/ Search

Spec == Init /\ [][Next]_vars

-----------------------------------------------------------------------------
(* SpecMain: the driver as written, Board(5) with hole 0 emptied *)

InitMain ==
  /\ pc = "config"
  /\ heap = (0 :> Board(MainSize))
  /\ stack = << >>
  /\ num_of_solutions = 0
  /\ num_of_function_runs = 0
  /\ reported = << >>
  /\ recording = FALSE
  /\ skipped_moves = 0
  /\ previous_run = << >>
  /\ init_call = << >>

ConfigureMain ==
  /\ pc = "config"
  /\ Item(heap[0].has_peg, MainEmpty)
  /\ RemovePeg(MainEmpty)

CallMain ==
  /\ pc = "config"
  /\ ~Item(heap[0].has_peg, MainEmpty)
  /\ Begin(TRUE)

NextMain == ConfigureMain \/ CallMain \/ Search

SpecMain == InitMain /\ [][NextMain]_vars

-----------------------------------------------------------------------------
(* SpecBoard: the call Board(n) alone, one step per turn of its loops *)

\* Lines 22-33 of Board.__init__(n): the fields of self and the local pos; the
\* object is in the heap once the call has returned.
InitBoard ==
  /\ pc = "init"
  /\ \E n \in 1..MaxBoard :
       init_call = [n |-> n, numHoles |-> (n*n + n) \div 2,
                    winSize |-> ((n*n + n) \div 2) - 2,
                    holes |-> << >>, has_peg |-> << >>,
                    row |-> 0, offset |-> 0, pos |-> 0]
  /\ heap = << >>
  /\ stack = << >>
  /\ num_of_solutions = 0
  /\ num_of_function_runs = 0
  /\ reported = << >>
  /\ recording = TRUE
  /\ skipped_moves = 0
  /\ previous_run = << >>

\* Lines 36-37, with line 57: one more Hole, holding a peg, and the next pos.
AppendHole ==
  /\ pc = "init"
  /\ init_call.row < init_call.n
  /\ init_call.offset <= init_call.row
  /\ init_call' = [init_call EXCEPT
                     !.holes = Append(@, Hole(init_call.n, init_call.pos,
                                              init_call.row, init_call.offset)),
                     !.has_peg = Append(@, TRUE),
                     !.pos = @ + 1,
                     !.offset = @ + 1]
  /\ UNCHANGED <<pc, heap, stack, num_of_solutions, num_of_function_runs, reported,
                 recording, skipped_moves, previous_run>>

\* Lines 34-35: range(row + 1) is exhausted, the outer loop takes the next row.
NextRow ==
  /\ pc = "init"
  /\ init_call.row < init_call.n
  /\ init_call.offset > init_call.row
  /\ init_call' = [init_call EXCEPT !.row = @ + 1, !.offset = 0]
  /\ UNCHANGED <<pc, heap, stack, num_of_solutions, num_of_function_runs, reported,
                 recording, skipped_moves, previous_run>>

\* range(n) is exhausted: Board(n) returns the object, tempBoard.
Constructed ==
  /\ pc = "init"
  /\ init_call.row >= init_call.n
  /\ heap' = (0 :> [size |-> init_call.n,
                    numHoles |-> init_call.numHoles,
                    winSize |-> init_call.winSize,
                    has_peg |-> init_call.has_peg,
                    route |-> << >>])
  /\ pc' = "config"
  /\ UNCHANGED <<stack, num_of_solutions, num_of_function_runs, reported,
                 recording, skipped_moves, previous_run, init_call>>

NextBoardInit == AppendHole \/ NextRow \/ Constructed

SpecBoard == InitBoard /\ [][NextBoardInit]_vars

-----------------------------------------------------------------------------
(* SpecFair: Spec with the program always taking its next step *)

\* The interpreter runs the single thread until it returns or raises.
SpecFair == Spec /\ WF_vars(Next)

-----------------------------------------------------------------------------
(* What the properties speak about *)

\* The number of pegs on a board.
Pegs(b) == Cardinality({k \in 1..Len(b.has_peg) : b.has_peg[k]})

\* The innermost call is about to run an iteration of its loop.
Iterating == pc = "search" /\ Top.idx < Len(Top.moves)

\* The move that iteration takes from the list, and the board it makes of it.
NextMove == Top.moves[Top.idx + 1]

NextBoard == ApplyMove(heap[Top.board], NextMove)

\* On board b the move [origin, mid, dest] names three different holes of the
\* board, pegs in origin and mid, none in dest.
Legal(b, m) ==
  /\ \A i \in 1..3 : m[i] >= 0 /\ m[i] < b.numHoles
  /\ m[1] # m[2] /\ m[2] # m[3] /\ m[1] # m[3]
  /\ b.has_peg[m[1] + 1]
  /\ b.has_peg[m[2] + 1]
  /\ ~b.has_peg[m[3] + 1]

\* nb is b after the jump m and nothing else: origin and mid emptied, dest
\* filled, every other hole as it was, the route longer by (origin, dest).
JumpEffect(b, nb, m) ==
  /\ Len(nb.has_peg) = Len(b.has_peg)
  /\ \A k \in 1..Len(b.has_peg) :
        nb.has_peg[k] = IF k = m[1] + 1 \/ k = m[2] + 1 THEN FALSE
                        ELSE IF k = m[3] + 1 THEN TRUE
                        ELSE b.has_peg[k]
  /\ nb.route = Append(b.route, <<m[1], m[3]>>)
  /\ nb.size = b.size /\ nb.numHoles = b.numHoles /\ nb.winSize = b.winSize

\* A step that returns from the innermost call to its caller.
Returns == pc = "search" /\ Len(stack') < Len(stack)

-----------------------------------------------------------------------------
(* C1 *)

\* C1: the search applies every move valid_moves returned at every node it
\* reaches: no call returns with moves of its list left unapplied, so no sibling
\* of a winning move is skipped.
C1_NoSiblingSkipped == skipped_moves = 0

-----------------------------------------------------------------------------
(* C2 *)

\* C2: the route of the board of the k-th nested call holds k - 1 jumps, one per
\* move applied since tempBoard, each of which took one peg off the board; and
\* a board whose route has winSize entries, held or about to be made, has
\* exactly one peg.
C2_RouteCountsJumps ==
  /\ \A k \in 1..Len(stack) :
        /\ Len(heap[stack[k].board].route) = k - 1
        /\ Pegs(heap[0]) - Pegs(heap[stack[k].board]) = k - 1
  /\ \A r \in DOMAIN heap :
        Len(heap[r].route) = heap[r].winSize => Pegs(heap[r]) = 1
  /\ Iterating =>
        /\ Len(NextBoard.route) = Len(stack)
        /\ Pegs(heap[0]) - Pegs(NextBoard) = Len(stack)
        /\ Len(NextBoard.route) = NextBoard.winSize => Pegs(NextBoard) = 1

\* A call is about to make a board whose route has winSize entries.
C2_Witness ==
  /\ Iterating
  /\ Len(NextBoard.route) = NextBoard.winSize
  /\ Pegs(NextBoard) = 1

-----------------------------------------------------------------------------
(* C3 *)

\* C3: every iteration applies a move that is legal on the board the call was
\* given, and the board it makes is that board after the jump and nothing else,
\* its route longer by the one pair (origin, dest): this is the board kept in
\* new_board when the iteration goes on to line 92, and the route printed when
\* it returns at line 90.
C3_MovesLegalAndExact ==
  [][Iterating =>
       LET b == heap[Top.board]
           m == NextMove
       IN  /\ Legal(b, m)
           /\ JumpEffect(b, NextBoard, m)
           /\ Len(stack') >= Len(stack) => heap'[Len(stack)] = NextBoard
           /\ Len(stack') < Len(stack) =>
                 reported' = IF Top.show_solutions
                               THEN Append(reported, Append(b.route, <<m[1], m[3]>>))
                               ELSE reported]_vars

\* A second move has been applied on top of a first: the board the innermost
\* call was given carries a route of one jump and the call is in its loop.
C3_Witness ==
  /\ pc = "search"
  /\ Len(stack) >= 2
  /\ Top.idx >= 1
  /\ Len(heap[Top.board].route) = Len(stack) - 1
  /\ Len(stack) \in DOMAIN heap
  /\ Len(heap[Len(stack)].route) = Len(stack)

-----------------------------------------------------------------------------
(* C5 *)

\* C5: no step changes the board object of any call in progress, tempBoard
\* included, and when a call returns its board still has the valid moves the
\* call listed on entry and the route it came with: the moves are played on
\* copies that share nothing with the board they were copied from.
C5_BoardsUntouched ==
  [][/\ \A k \in 1..Len(stack) :
          /\ stack[k].board \in DOMAIN heap'
          /\ heap'[stack[k].board] = heap[stack[k].board]
     /\ heap'[0] = heap[0] \/ pc = "config"
     /\ Returns =>
          /\ valid_moves(heap'[Top.board]) = Top.moves
          /\ Len(heap'[Top.board].route) = Len(stack) - 1]_vars

\* A nested call has explored a move and gone on to the next one of its list.
C5_Witness ==
  /\ Iterating
  /\ Len(stack) >= 2
  /\ Top.idx >= 1
  /\ valid_moves(heap[Top.board]) = Top.moves

-----------------------------------------------------------------------------
(* C4 *)

\* C4: every invocation of the search returns, for every board size and every
\* layout the caller configures, and the driver ends; along the chain of nested
\* calls the route grows by one from each call to the call it makes, and the
\* route of a board reached by a move stays below winSize.
C4_Terminates ==
  /\ [](\A k \in 2..Len(stack) :
          /\ Len(heap[stack[k].board].route) = Len(heap[stack[k - 1].board].route) + 1
          /\ Len(heap[stack[k].board].route) < heap[stack[k].board].winSize)
  /\ (pc = "search") ~> (pc = "done")
  /\ <>(pc = "done" \/ pc = "error")

\* A search that went several calls deep has returned to the driver.
C4_Witness ==
  /\ pc = "done"
  /\ num_of_function_runs > heap[0].numHoles

-----------------------------------------------------------------------------
(* C6 *)

\* C6: a second run of the search on the same board ends with the routes of the
\* first run printed again in the same order, and with the same two counters.
C6_SameRunTwice ==
  (pc = "done" /\ previous_run # << >>) =>
     /\ reported = previous_run[1].reported
     /\ num_of_solutions = previous_run[1].num_of_solutions
     /\ num_of_function_runs = previous_run[1].num_of_function_runs

\* The second of two runs that print routes has returned.
C6_Witness ==
  /\ pc = "done"
  /\ previous_run # << >>
  /\ Len(reported) > 1
  /\ reported = previous_run[1].reported

-----------------------------------------------------------------------------
(* C9 *)

\* A board on which no move can be made: no candidate passes the tests of
\* valid_moves; in particular a board of size 1 or 2, or one with no empty hole.
DeadBoard(b) ==
  \/ valid_moves(b) = << >>
  \/ b.size <= 2
  \/ \A k \in 1..Len(b.has_peg) : b.has_peg[k]

\* A step in which the driver calls find_solutions(tempBoard).
DriverCalls ==
  \/ pc = "config" /\ pc' # "config" /\ pc' # "error"
  \/ pc = "done" /\ previous_run' # previous_run

\* C9: a call on a board with no valid move returns at once: nothing is printed,
\* num_of_solutions stays as it was (0 after the driver's reset), no further call
\* is made (the call counter has grown by this call alone) and no board changes.
C9_DeadEndReturns ==
  [][/\ (DriverCalls /\ DeadBoard(heap[0])) =>
          /\ pc' = "done"
          /\ stack' = << >>
          /\ num_of_solutions' = 0
          /\ num_of_function_runs' = 1
          /\ reported' = IF pc = "config" THEN reported ELSE << >>
          /\ heap' = heap
     /\ (Iterating /\ Len(NextBoard.route) # NextBoard.winSize
            /\ DeadBoard(NextBoard)) =>
          /\ stack' = [stack EXCEPT ![Len(stack)].idx = @ + 1]
          /\ num_of_solutions' = num_of_solutions
          /\ num_of_function_runs' = num_of_function_runs + 1
          /\ reported' = reported
          /\ heap'[Len(stack)] = NextBoard
          /\ \A r \in DOMAIN heap : r # Len(stack) => heap'[r] = heap[r]]_vars

\* The call on Board(1), whose only hole has nothing to jump, has returned.
C9_Witness ==
  /\ pc = "done"
  /\ heap[0].size = 1
  /\ num_of_function_runs = 1
  /\ num_of_solutions = 0
  /\ reported = << >>

-----------------------------------------------------------------------------
(* C10 *)

\* The positions that name no hole of the board: below 0, or numHoles and above.
OutOfRange(b) == {p \in Positions(b) : p < 0 \/ p >= b.numHoles}

\* C10: emptying a position outside 0 .. numHoles - 1 is refused with an error
\* and leaves no board modified.
C10_OutOfRangeRejected ==
  [][\A p \in OutOfRange(heap[0]) :
       RemovePeg(p) => (pc' = "error" /\ heap' = heap)]_vars

-----------------------------------------------------------------------------
(* C7 *)

\* C7: the driver's run, Board(5) with hole 0 emptied, ends with
\* num_of_solutions above 0.
C7_MainFindsSolutions ==
  pc = "done" => (heap[0].size = MainSize /\ num_of_solutions > 0)

\* The driver's run has counted its first winning sequence.
C7_Witness ==
  /\ heap[0].size = MainSize
  /\ ~Item(heap[0].has_peg, MainEmpty)
  /\ Pegs(heap[0]) = heap[0].numHoles - 1
  /\ num_of_solutions = 1

-----------------------------------------------------------------------------
(* C8 *)

\* The winning sequences of the run so far: those counted, and those left
\* unapplied where a call returned at line 90 (every move of a list that holds
\* a winning move completes a route of the same length, so each is one).
WinningSequences == num_of_solutions + skipped_moves

\* C8, as the specification has it: the winning sequences from Board(5) with
\* hole 0 emptied number exactly 36; the search never comes to a 37th, and ends
\* with 36.
C8_Exactly36 ==
  /\ WinningSequences <= 36
  /\ pc = "done" => WinningSequences = 36

\* C8, as the program has it: the winning sequences from Board(5) with hole 0
\* emptied number exactly 29760, of which the search counts 22944 and leaves
\* 6816 unapplied.
C8_Exactly29760 ==
  pc = "done" =>
     /\ WinningSequences = 29760
     /\ num_of_solutions = 22944
     /\ skipped_moves = 6816

\* The driver's run has counted a 37th winning sequence itself.
C8_Witness ==
  /\ heap[0].size = MainSize
  /\ pc = "search"
  /\ num_of_solutions = 37

-----------------------------------------------------------------------------
(* C11 *)

\* The place of [mid, dest] in the candidate list of a hole.
CandidateIndex(hole, mid, dest) ==
  CHOOSE j \in 1..Len(hole.moves) : hole.moves[j] = <<mid, dest>>

\* ms lists, for board b, exactly the triples [origin, mid, dest] with a peg in
\* origin, [mid, dest] a candidate of origin, a peg in mid and none in dest,
\* each once, by ascending origin and, within an origin, in candidate order.
ExactMoveList(b, ms) ==
  LET H == Holes[b.size]
  IN  /\ \A i \in 1..Len(ms) :
            /\ ms[i][1] >= 0 /\ ms[i][1] < Len(H)
            /\ \E j \in 1..Len(H[ms[i][1] + 1].moves) :
                  H[ms[i][1] + 1].moves[j] = <<ms[i][2], ms[i][3]>>
            /\ b.has_peg[ms[i][1] + 1]
            /\ b.has_peg[ms[i][2] + 1]
            /\ ~b.has_peg[ms[i][3] + 1]
      /\ \A k \in 1..Len(H) : \A j \in 1..Len(H[k].moves) :
            (/\ b.has_peg[k]
             /\ b.has_peg[H[k].moves[j][1] + 1]
             /\ ~b.has_peg[H[k].moves[j][2] + 1])
            => \E i \in 1..Len(ms) :
                  ms[i] = <<k - 1, H[k].moves[j][1], H[k].moves[j][2]>>
      /\ \A i, j \in 1..Len(ms) :
            i < j =>
              \/ ms[i][1] < ms[j][1]
              \/ /\ ms[i][1] = ms[j][1]
                 /\ CandidateIndex(H[ms[i][1] + 1], ms[i][2], ms[i][3])
                      < CandidateIndex(H[ms[j][1] + 1], ms[j][2], ms[j][3])

\* C11: on every board the program holds, valid_moves returns exactly the legal
\* triples, none twice, by ascending origin and within an origin in candidate
\* order; and it leaves the board as it was: the list a call in progress got on
\* entry is still the list valid_moves gives for its board.
C11_ValidMovesExact ==
  /\ \A r \in DOMAIN heap : ExactMoveList(heap[r], valid_moves(heap[r]))
  /\ \A k \in 1..Len(stack) :
        /\ stack[k].moves = valid_moves(heap[stack[k].board])
        /\ ExactMoveList(heap[stack[k].board], stack[k].moves)

\* A call holds a list with two moves of one origin followed by a move of a
\* later origin.
C11_Witness ==
  /\ pc = "search"
  /\ \E i \in 1..(Len(Top.moves) - 2) :
        /\ Top.moves[i][1] = Top.moves[i + 1][1]
        /\ Top.moves[i + 1][1] < Top.moves[i + 2][1]

-----------------------------------------------------------------------------
(* C12 *)

\* The triangular grid: row r holds the offsets 0 .. r, and n rows make a board.
OnBoard(n, r, o) == r >= 0 /\ r < n /\ o >= 0 /\ o <= r

PositionOf(r, o) == (r * (r + 1)) \div 2 + o

\* The row and the offset of the hole at position p.
RowOf(p) ==
  CHOOSE r \in 0..p : PositionOf(r, 0) <= p /\ p < PositionOf(r + 1, 0)

OffsetOf(p) == p - PositionOf(RowOf(p), 0)

\* One step in each direction, as (rows, offsets): east, northeast, west,
\* northwest, south-west, south-east.
Directions ==
  << <<0, 1>>, <<-1, 0>>, <<0, -1>>, <<-1, -1>>, <<1, 0>>, <<1, 1>> >>

\* The jump from (r, o) in direction d, if the hole two steps away is on the
\* board: over the adjacent hole, into the hole two steps away.
GeometricJump(n, r, o, d) ==
  IF OnBoard(n, r + 2*d[1], o + 2*d[2])
    THEN << <<PositionOf(r + d[1], o + d[2]),
              PositionOf(r + 2*d[1], o + 2*d[2])>> >>
    ELSE << >>

GeometricMoves(n, r, o) ==
  GeometricJump(n, r, o, Directions[1]) \o GeometricJump(n, r, o, Directions[2])
  \o GeometricJump(n, r, o, Directions[3]) \o GeometricJump(n, r, o, Directions[4])
  \o GeometricJump(n, r, o, Directions[5]) \o GeometricJump(n, r, o, Directions[6])

\* C12: the candidate moves of every hole built are exactly the jumps of the
\* grid from its (row, offset), direction by direction in the order east,
\* northeast, west, northwest, south-west, south-east; every mid and dest is a
\* position of the board, and the candidates number 0, 2, 4 or 6.
C12_CandidatesAreTheJumps ==
  \A k \in 1..Len(init_call.holes) :
     LET moves == init_call.holes[k].moves
     IN  /\ moves = GeometricMoves(init_call.n, RowOf(k - 1), OffsetOf(k - 1))
         /\ \A j \in 1..Len(moves) : \A i \in 1..2 :
               moves[j][i] >= 0 /\ moves[j][i] < init_call.numHoles
         /\ Len(moves) \in {0, 2, 4, 6}

\* A board is built that has a hole with all six jumps and a hole with two.
C12_Witness ==
  /\ pc = "config"
  /\ \E k \in 1..Len(init_call.holes) : Len(init_call.holes[k].moves) = 6
  /\ \E k \in 1..Len(init_call.holes) : Len(init_call.holes[k].moves) = 2

-----------------------------------------------------------------------------
(* C13 *)

\* The (row, offset) pairs of a board of n rows.
GridPairs(n) == {rc \in (0..(n - 1)) \X (0..(n - 1)) : rc[2] <= rc[1]}

\* C13: while Board(n) builds its holes, the hole stored at index i has pos = i
\* and holds a peg, and the hole about to be built for (row, offset) gets
\* pos = row*(row+1)/2 + offset; once built, the board has n(n+1)/2 holes,
\* numHoles says so, and (row, offset) -> pos maps the pairs of the grid one to
\* one onto 0 .. numHoles - 1.  The object is the Board(n) the search starts from.
C13_BoardConstruction ==
  LET c == init_call
  IN  /\ Len(c.holes) = c.pos
      /\ Len(c.has_peg) = c.pos
      /\ \A k \in 1..Len(c.holes) : c.holes[k].pos = k - 1 /\ c.has_peg[k]
      /\ (c.row < c.n /\ c.offset <= c.row) => c.pos = PositionOf(c.row, c.offset)
      /\ pc = "config" =>
            /\ Len(c.holes) = (c.n * (c.n + 1)) \div 2
            /\ c.numHoles = Len(c.holes)
            /\ Cardinality(GridPairs(c.n)) = c.numHoles
            /\ \A rc \in GridPairs(c.n) :
                  /\ PositionOf(rc[1], rc[2]) \in 0..(c.numHoles - 1)
                  /\ c.holes[PositionOf(rc[1], rc[2]) + 1].pos = PositionOf(rc[1], rc[2])
                  /\ RowOf(PositionOf(rc[1], rc[2])) = rc[1]
                  /\ OffsetOf(PositionOf(rc[1], rc[2])) = rc[2]
            /\ \A p \in 0..(c.numHoles - 1) :
                  <<RowOf(p), OffsetOf(p)>> \in GridPairs(c.n)
            /\ c.holes = Holes[c.n]
            /\ heap[0] = Board(c.n)

\* Board(n) has returned a board of several rows.
C13_Witness ==
  /\ pc = "config"
  /\ init_call.n >= 3
  /\ Len(heap[0].has_peg) = heap[0].numHoles
  /\ init_call.holes[heap[0].numHoles].pos = heap[0].numHoles - 1

-----------------------------------------------------------------------------
(* C14 *)

\* C14: the test of line 85 comes before the call of line 92: an iteration that
\* makes a board whose route has winSize entries returns without a call, on no
\* board of a call in progress, and on no board a call was just made on, has
\* the route winSize entries, and a board whose route has winSize entries has
\* no valid move.
C14_WinBeforeRecursion ==
  [][/\ (Iterating /\ Len(NextBoard.route) = NextBoard.winSize) =>
          /\ num_of_function_runs' = num_of_function_runs
          /\ Len(stack') < Len(stack)
          /\ valid_moves(NextBoard) = << >>
     /\ (pc = "search" /\ num_of_function_runs' # num_of_function_runs) =>
          Len(heap'[Len(stack)].route) # heap'[Len(stack)].winSize
     /\ \A k \in 2..Len(stack') :
          Len(heap'[stack'[k].board].route) # heap'[stack'[k].board].winSize
     /\ \A r \in DOMAIN heap' :
          Len(heap'[r].route) = heap'[r].winSize => valid_moves(heap'[r]) = << >>]_vars

\* A winning board has just been counted: the call that made it has returned
\* to its caller, and its board, one jump short of winSize, is still the
\* caller's new_board.
C14_Witness ==
  /\ pc = "search"
  /\ num_of_solutions > 0
  /\ Len(reported) = num_of_solutions
  /\ Len(stack) = heap[0].winSize - 1
  /\ Len(stack) \in DOMAIN heap
  /\ Len(heap[Len(stack)].route) = heap[0].winSize - 1
  /\ valid_moves(heap[Len(stack)]) # << >>

-----------------------------------------------------------------------------
(* C15 *)

\* The place, in the list valid_moves gives for board b, of the move a route
\* entry (origin, dest) stands for.
MoveIndex(b, jump) ==
  CHOOSE i \in 1..Len(valid_moves(b)) :
    valid_moves(b)[i][1] = jump[1] /\ valid_moves(b)[i][3] = jump[2]

\* Board b after the first k jumps of a route.
RECURSIVE Replay(_, _, _)
Replay(b, route, k) ==
  IF k = 0 THEN b
  ELSE LET before == Replay(b, route, k - 1)
       IN  ApplyMove(before, valid_moves(before)[MoveIndex(before, route[k])])

\* The first place where two routes of one length differ.
FirstDifference(A, B) ==
  CHOOSE d \in 1..Len(A) : A[d] # B[d] /\ \A e \in 1..(d - 1) : A[e] = B[e]

\* Of any two routes in out, the earlier one takes, where they first differ,
\* the move that is earlier in the list of the board they share there.
LeftmostFirst(out) ==
  \A i, j \in 1..Len(out) :
     i < j =>
       /\ out[i] # out[j]
       /\ LET d == FirstDifference(out[i], out[j])
               shared == Replay(heap[0], out[i], d - 1)
           IN  MoveIndex(shared, out[i][d]) < MoveIndex(shared, out[j][d])

\* C15: the routes are printed depth first, leftmost move first; and a route
\* is printed and counted in the very iteration that applies its last jump,
\* before any other move is tried: one more count, one more line, the route of
\* the board just made.
C15_DepthFirstOrder ==
  [][/\ LeftmostFirst(reported')
     /\ Len(reported') = num_of_solutions'
     /\ (pc = "search" /\ num_of_solutions' # num_of_solutions) =>
          /\ Iterating
          /\ num_of_solutions' = num_of_solutions + 1
          /\ reported' = Append(reported, NextBoard.route)
          /\ Len(NextBoard.route) = NextBoard.winSize]_vars

\* A run has printed several routes, the first and the last of which share
\* their first jumps and part later.
C15_Witness ==
  /\ Len(reported) >= 3
  /\ num_of_solutions = Len(reported)
  /\ FirstDifference(reported[1], reported[Len(reported)]) > 1

-----------------------------------------------------------------------------
(* C16 *)

\* The driver's initial board, the search about to start: Board(5) with hole 0
\* the only empty hole.
MainBoard ==
  /\ pc = "config"
  /\ heap[0].size = MainSize
  /\ heap[0].route = << >>
  /\ \A k \in 1..Len(heap[0].has_peg) : heap[0].has_peg[k] <=> (k - 1 # MainEmpty)

\* Move m of a board of n rows is one that the test named by its origin hole
\* appended: the south test, or the east and northeast test.
FromSouthTest(n, m) ==
  \E j \in 1..Len(SouthMoves(n, m[1], RowOf(m[1]), OffsetOf(m[1]))) :
     SouthMoves(n, m[1], RowOf(m[1]), OffsetOf(m[1]))[j] = <<m[2], m[3]>>

FromEastTest(n, m) ==
  \E j \in 1..Len(EastMoves(m[1], RowOf(m[1]), OffsetOf(m[1]))) :
     EastMoves(m[1], RowOf(m[1]), OffsetOf(m[1]))[j] = <<m[2], m[3]>>

\* The origins that have a candidate move into hole dest.
JumpersInto(n, dest) ==
  {Candidates[n][i][1] : i \in {j \in 1..Len(Candidates[n]) : Candidates[n][j][3] = dest}}

\* C16, as the specification has it: the first move valid_moves returns on the
\* driver's initial board is a jump into hole 0 that the south test appended,
\* made by one of the only two pegs that can jump into hole 0.
C16_FirstMoveSouth ==
  MainBoard =>
     /\ Len(valid_moves(heap[0])) > 0
     /\ valid_moves(heap[0])[1][3] = MainEmpty
     /\ FromSouthTest(MainSize, valid_moves(heap[0])[1])
     /\ valid_moves(heap[0])[1][1] \in JumpersInto(MainSize, MainEmpty)
     /\ Cardinality(JumpersInto(MainSize, MainEmpty)) = 2

\* C16, as the program has it: the first move valid_moves returns on the
\* driver's initial board is [3, 1, 0], the jump of hole 3 (row 2, offset 0)
\* over hole 1 up into hole 0; it is the northeast move, appended by the east
\* and northeast test and not by the south test, and hole 3 is one of the only
\* two holes, 3 and 5, that have a candidate move into hole 0.
C16_FirstMoveNortheast ==
  MainBoard =>
     /\ Len(valid_moves(heap[0])) > 0
     /\ valid_moves(heap[0])[1] = <<3, 1, 0>>
     /\ valid_moves(heap[0])[1][3] = MainEmpty
     /\ RowOf(3) = 2 /\ OffsetOf(3) = 0
     /\ FromEastTest(MainSize, valid_moves(heap[0])[1])
     /\ ~FromSouthTest(MainSize, valid_moves(heap[0])[1])
     /\ GeometricJump(MainSize, 2, 0, Directions[2]) = << <<1, 0>> >>
     /\ JumpersInto(MainSize, MainEmpty) = {3, 5}

\* The driver has emptied hole 0, and valid_moves has two moves to return.
C16_Witness ==
  /\ MainBoard
  /\ Len(valid_moves(heap[0])) = 2
  /\ valid_moves(heap[0])[2] = <<5, 2, 0>>

-----------------------------------------------------------------------------
(* C17 *)

\* The part of a Board object that no line after its construction writes: the
\* three numbers, and pos and moves of each of its holes (the holes of a board
\* of its size).
Statics(b) ==
  [size |-> b.size, numHoles |-> b.numHoles, winSize |-> b.winSize,
   holes |-> Holes[b.size]]

-----------------------------------------------------------------------------
(* C18 *)

\* C18: every board the search holds, and the board an iteration is about to
\* make, has as many pegs as tempBoard less one for each jump of its route; a
\* board with a valid move has at least two pegs, and a board reached by a
\* jump has at least one.
C18_PegConservation ==
  /\ \A r \in DOMAIN heap :
        /\ Pegs(heap[r]) = Pegs(heap[0]) - Len(heap[r].route)
        /\ valid_moves(heap[r]) # << >> => Pegs(heap[r]) >= 2
        /\ Len(heap[r].route) > 0 => Pegs(heap[r]) >= 1
  /\ Iterating =>
        /\ Pegs(NextBoard) = Pegs(heap[Top.board]) - 1
        /\ Pegs(NextBoard) = Pegs(heap[0]) - Len(NextBoard.route)
        /\ Pegs(NextBoard) >= 1
        /\ Pegs(heap[Top.board]) >= 2

\* The search holds a board several jumps away from tempBoard that still has
\* a valid move.
C18_Witness ==
  /\ pc = "search"
  /\ Len(stack) >= 4
  /\ Len(heap[Top.board].route) = Len(stack) - 1
  /\ Pegs(heap[Top.board]) = Pegs(heap[0]) - (Len(stack) - 1)
  /\ Pegs(heap[Top.board]) >= 2

-----------------------------------------------------------------------------
(* C19 *)

\* C19: a call counts a route only on a board one jump short of winSize, with
\* the first move of its list; every move of that list makes a board with a
\* route of winSize entries, one peg and no valid move, so the moves the return
\* of line 90 leaves unapplied are all winning moves; and the call returns in
\* the iteration that counts, so num_of_solutions grows by at most one per
\* call of find_solutions.
C19_OnlyWinsSkipped ==
  [][/\ (pc = "search" /\ num_of_solutions' # num_of_solutions) =>
          /\ Len(heap[Top.board].route) = heap[Top.board].winSize - 1
          /\ Top.idx = 0
          /\ \A i \in 1..Len(Top.moves) :
                LET nb == ApplyMove(heap[Top.board], Top.moves[i])
                IN  /\ Len(nb.route) = nb.winSize
                    /\ Pegs(nb) = 1
                    /\ valid_moves(nb) = << >>
          /\ skipped_moves' - skipped_moves = Len(Top.moves) - 1
          /\ num_of_solutions' = num_of_solutions + 1
          /\ num_of_function_runs' = num_of_function_runs
          /\ stack' = Pop
     /\ skipped_moves' # skipped_moves =>
          \/ pc = "search" /\ num_of_solutions' # num_of_solutions
          \/ pc = "config" \/ pc = "done"
     /\ num_of_solutions' <= num_of_function_runs']_vars

\* The driver's run has returned from a call that held two winning moves after
\* applying the first.
C19_Witness ==
  /\ heap[0].size = MainSize
  /\ pc = "search"
  /\ skipped_moves = 1
  /\ num_of_solutions = 7

-----------------------------------------------------------------------------
(* C20 *)

\* C20: no route is printed twice in a run: any two printed routes differ in
\* some entry (origin, dest); and among the candidate moves of the board, as
\* among the moves any call in progress holds, origin and dest determine the
\* move, so another move of a list logs another entry.
C20_NoRouteTwice ==
  /\ \A i, j \in 1..Len(reported) :
        i < j => \E d \in 1..Len(reported[i]) :
                   d > Len(reported[j]) \/ reported[i][d] # reported[j][d]
  /\ LET cs == Candidates[heap[0].size]
     IN  \A i, j \in 1..Len(cs) :
           (cs[i][1] = cs[j][1] /\ cs[i][3] = cs[j][3]) => i = j
  /\ \A k \in 1..Len(stack) : \A i, j \in 1..Len(stack[k].moves) :
        (/\ stack[k].moves[i][1] = stack[k].moves[j][1]
         /\ stack[k].moves[i][3] = stack[k].moves[j][3]) => i = j

\* A run has printed several routes and returned.
C20_Witness ==
  /\ pc = "done"
  /\ Len(reported) > 2
  /\ Len(reported) = num_of_solutions
  /\ reported[1] # reported[2]

=============================================================================
